---- MODULE Spec2Model ----
(***************************************************************************)
(* Model of frontend/src/App.jsx (Text Analyzer).                          *)
(*                                                                         *)
(* The App component keeps five pieces of React state (text, result,       *)
(* loading, error, copiedCategory).  Around it live the browser's          *)
(* resources the handlers use: the fetch calls in flight, the pending      *)
(* setTimeout callbacks and the clipboard.  Every handler is one action,   *)
(* because the browser runs a handler (and the continuation of an await)   *)
(* to completion before it processes the next event.                       *)
(***************************************************************************)
EXTENDS Integers, Sequences, FiniteSets, TLC

(***************************************************************************)
(* Bounds of the model.                                                    *)
(***************************************************************************)
\* pending setTimeout callbacks the model lets accumulate
MaxTimers == 2
\* analyze calls the model lets be outstanding at once
MaxInFlight == 2
\* the longest step by which the model lets time advance
TickStep == 1000
\* analyze calls the model lets be issued in one run
MaxCalls == 2
\* the passive sentences of a generated result are at most this many
MaxPassive == 70

(***************************************************************************)
(* Program constants.                                                      *)
(***************************************************************************)
\* App.jsx:12 and :271, the minimum text length
MinChars == 10
\* App.jsx:48, the delay of the copy-feedback timer
ExpiryDelay == 2000

\* JavaScript null (the initial result and copiedCategory)
Null == [null |-> TRUE]
NoCategory == "null"

ValidationMessage == "Please enter at least 10 characters of text"
AnalysisFailed == "Analysis failed"
ConnectFailed == "Failed to connect to server"

(***************************************************************************)
(* Texts: a string is a sequence of characters, "a" standing for any       *)
(* non-whitespace character and " " for any whitespace character.          *)
(***************************************************************************)
Pad(n) == [i \in 1..n |-> " "]
Core(n) == [i \in 1..n |-> "a"]

\* <<leading whitespace, non-whitespace core, trailing whitespace>>
TextShapes ==
    { <<0, 0, 0>>,
      <<0, MinChars - 1, 0>>,
      <<0, MinChars, 0>>,
      <<0, MinChars - 1, 1>>,
      <<1, MinChars - 2, 1>>,
      <<1, MinChars, 0>>,
      <<0, 0, MinChars>> }

Texts == { Pad(s[1]) \o Core(s[2]) \o Pad(s[3]) : s \in TextShapes }

IsSpace(c) == c = " "

RECURSIVE TrimStart(_)
TrimStart(s) ==
    IF s # <<>> /\ IsSpace(Head(s)) THEN TrimStart(Tail(s)) ELSE s

RECURSIVE TrimEnd(_)
TrimEnd(s) ==
    IF s # <<>> /\ IsSpace(s[Len(s)]) THEN TrimEnd(SubSeq(s, 1, Len(s) - 1)) ELSE s

\* String.prototype.trim
Trim(s) == TrimEnd(TrimStart(s))

\* JavaScript truthiness of a message string: the empty string is falsy
Truthy(s) == s # ""

(***************************************************************************)
(* Analysis results the collaborator can return.                           *)
(***************************************************************************)
ResultPassive ==
    [ text_stats |-> [ word_count |-> 7, sentence_count |-> 1,
                       avg_sentence_length |-> 7, avg_word_length |-> 3,
                       character_count |-> 30 ],
      readability |-> [ flesch_kincaid_grade |-> 2, reading_level |-> "Easy",
                        description |-> "Easily understood" ],
      tense_analysis |-> [ past |-> <<"was", "chased">>, present |-> <<>>,
                           future |-> <<>> ],
      passive_sentences |-> << "The cat was chased by the dog." >>,
      word_frequency |-> << [word |-> "the", count |-> 2],
                            [word |-> "cat", count |-> 1] >>,
      parts_of_speech |-> [ nouns |-> <<"cat", "dog">>, verbs |-> <<"chased">>,
                            adjectives |-> <<>>, prepositions |-> <<"by">> ] ]

ResultActive ==
    [ text_stats |-> [ word_count |-> 12, sentence_count |-> 2,
                       avg_sentence_length |-> 6, avg_word_length |-> 4,
                       character_count |-> 58 ],
      readability |-> [ flesch_kincaid_grade |-> 5, reading_level |-> "Fairly Easy",
                        description |-> "Conversational English" ],
      tense_analysis |-> [ past |-> <<>>, present |-> <<"runs">>,
                           future |-> <<"will", "go">> ],
      passive_sentences |-> << >>,
      word_frequency |-> << [word |-> "she", count |-> 3] >>,
      parts_of_speech |-> [ nouns |-> <<"park">>, verbs |-> <<"runs", "go">>,
                            adjectives |-> <<"quick">>, adverbs |-> <<"quickly">>,
                            pronouns |-> <<"she">>, prepositions |-> <<"to">>,
                            conjunctions |-> <<"and">> ] ]

Payloads == { ResultPassive, ResultActive }

\* the detail strings of a failure response
Details == { "Text must be at least 10 characters long" }
\* the messages of a rejected fetch (or of a body that is not JSON)
RejectMessages == { "Failed to fetch" }

\* what can come back for one analyze call
Outcomes ==
    [ kind : {"ok"}, data : Payloads ]
    \cup [ kind : {"notok"}, detail : Details \cup {""} ]
    \cup { [ kind |-> "notok" ] }
    \cup [ kind : {"reject"}, message : RejectMessages \cup {""} ]

TenseCategories == { "past", "present", "future" }
PosCategories ==
    { "nouns", "verbs", "adjectives", "adverbs", "pronouns", "prepositions",
      "conjunctions" }

VARIABLES
    text,            \* useState('')     App.jsx:5
    result,          \* useState(null)   App.jsx:6
    loading,         \* useState(false)  App.jsx:7
    error,           \* useState('')     App.jsx:8
    copiedCategory,  \* useState(null)   App.jsx:9
    inflight,        \* the analyze calls awaiting their response, oldest first
    timers,          \* remaining delay of each pending setTimeout callback, oldest first
    clipboard,       \* the last string given to navigator.clipboard.writeText
    calls,           \* history: the number of fetch calls issued so far
    sinceClear,      \* history: handleClear ran and handleAnalyze has not run since
    lastCopy,        \* history: the category of the latest copy action
    sinceCopy,       \* history: time since the latest copy action, capped at ExpiryDelay
    superseded,      \* history: the latest copy action came less than ExpiryDelay
                     \* after a copy action for another category
    mounted,         \* the App component is mounted
    doc,             \* the document handleDownloadPDF saved last
    resultText       \* history: the text of the call whose response is the result

reqVars == << text, result, loading, error, inflight, calls, sinceClear >>
copyVars == << copiedCategory, timers, clipboard, lastCopy, sinceCopy, superseded >>
\* what no handler but handleDownloadPDF, and no callback, writes
xVars == << mounted, doc, resultText >>
vars == << text, result, loading, error, copiedCategory, inflight, timers,
           clipboard, calls, sinceClear, lastCopy, sinceCopy, superseded,
           mounted, doc, resultText >>

\* no document saved yet
NoDocument == << >>

Init ==
    /\ text = <<>>
    /\ result = Null
    /\ loading = FALSE
    /\ error = ""
    /\ copiedCategory = NoCategory
    /\ inflight = <<>>
    /\ timers = <<>>
    /\ clipboard = ""
    /\ calls = 0
    /\ sinceClear = FALSE
    /\ lastCopy = NoCategory
    /\ sinceCopy = ExpiryDelay
    /\ superseded = FALSE
    /\ mounted = TRUE
    /\ doc = NoDocument
    /\ resultText = <<>>

(***************************************************************************)
(* The request lifecycle.                                                  *)
(***************************************************************************)
\* faulty variant: the button stays enabled while a call is in flight
AnalyzeDisabledIgnoresLoading == Len(text) < MinChars

\* the Analyze button's disabled attribute
AnalyzeDisabled == loading \/ Len(text) < MinChars

\* the validation of handleAnalyze: true when the submit is rejected
Rejected(t) == Trim(t) = <<>> \/ Len(t) < MinChars

\* faulty variant: a rejected submit also discards the stored result
handleAnalyzeDropsResult ==
    /\ sinceClear' = FALSE
    /\ IF Rejected(text)
       THEN /\ error' = ValidationMessage
            /\ result' = Null
            /\ UNCHANGED << text, loading, inflight, calls >>
       ELSE /\ Len(inflight) < MaxInFlight
            /\ calls < MaxCalls
            /\ loading' = TRUE
            /\ error' = ""
            /\ result' = Null
            /\ inflight' = Append(inflight, [text |-> text])
            /\ calls' = calls + 1
            /\ UNCHANGED text
    /\ UNCHANGED copyVars

\* faulty variant: an accepted submit leaves the previous error message in place
handleAnalyzeKeepsError ==
    /\ sinceClear' = FALSE
    /\ IF Rejected(text)
       THEN /\ error' = ValidationMessage
            /\ UNCHANGED << text, result, loading, inflight, calls >>
       ELSE /\ Len(inflight) < MaxInFlight
            /\ calls < MaxCalls
            /\ loading' = TRUE
            /\ result' = Null
            /\ inflight' = Append(inflight, [text |-> text])
            /\ calls' = calls + 1
            /\ UNCHANGED << text, error >>
    /\ UNCHANGED copyVars

\* handleAnalyze up to its await: validation, then the state changes and fetch
handleAnalyze ==
    /\ sinceClear' = FALSE
    /\ IF Rejected(text)
       THEN /\ error' = ValidationMessage
            /\ UNCHANGED << text, result, loading, inflight, calls >>
       ELSE /\ Len(inflight) < MaxInFlight
            /\ calls < MaxCalls
            /\ loading' = TRUE
            /\ error' = ""
            /\ result' = Null
            /\ inflight' = Append(inflight, [text |-> text])
            /\ calls' = calls + 1
            /\ UNCHANGED text
    /\ UNCHANGED copyVars

\* a click on the Analyze button: a disabled button dispatches no click
ClickAnalyze ==
    IF AnalyzeDisabled THEN UNCHANGED vars ELSE handleAnalyze

\* faulty variant: the collaborator's detail string is not used
ErrorMessageIgnoresDetail(o) ==
    LET thrown == IF o.kind = "notok" THEN AnalysisFailed ELSE o.message
    IN  IF Truthy(thrown) THEN thrown ELSE ConnectFailed

\* the message handleAnalyze's catch block shows for a failed call
ErrorMessage(o) ==
    LET thrown ==
            IF o.kind = "notok"
            THEN IF "detail" \in DOMAIN o /\ Truthy(o.detail)
                 THEN o.detail ELSE AnalysisFailed
            ELSE o.message
    IN  IF Truthy(thrown) THEN thrown ELSE ConnectFailed

RemoveAt(s, i) == SubSeq(s, 1, i - 1) \o SubSeq(s, i + 1, Len(s))

\* faulty variant: a failed call is issued again
FetchSettledRetries(i, o) ==
    IF o.kind = "ok"
    THEN /\ inflight' = RemoveAt(inflight, i)
         /\ result' = o.data
         /\ loading' = FALSE
         /\ UNCHANGED << text, error, calls, sinceClear >>
         /\ UNCHANGED copyVars
    ELSE /\ calls < MaxCalls
         /\ inflight' = Append(RemoveAt(inflight, i), inflight[i])
         /\ calls' = calls + 1
         /\ UNCHANGED << text, result, loading, error, sinceClear >>
         /\ UNCHANGED copyVars

\* faulty variant: without the finally block, a failed call leaves loading set
FetchSettledWithoutFinally(i, o) ==
    /\ inflight' = RemoveAt(inflight, i)
    /\ IF o.kind = "ok"
       THEN result' = o.data /\ loading' = FALSE /\ UNCHANGED error
       ELSE error' = ErrorMessage(o) /\ UNCHANGED << result, loading >>
    /\ UNCHANGED << text, calls, sinceClear >>
    /\ UNCHANGED copyVars

\* handleAnalyze after its await: the call number i settles with outcome o
FetchSettled(i, o) ==
    /\ inflight' = RemoveAt(inflight, i)
    /\ IF o.kind = "ok"
       THEN result' = o.data /\ UNCHANGED error
       ELSE error' = ErrorMessage(o) /\ UNCHANGED result
    /\ loading' = FALSE
    /\ UNCHANGED << text, calls, sinceClear >>
    /\ UNCHANGED copyVars

\* the textarea's onChange
onChange(v) ==
    /\ text' = v
    /\ UNCHANGED << result, loading, error, inflight, calls, sinceClear >>
    /\ UNCHANGED copyVars

handleClear ==
    /\ text' = <<>>
    /\ result' = Null
    /\ error' = ""
    /\ sinceClear' = TRUE
    /\ UNCHANGED << loading, inflight, calls >>
    /\ UNCHANGED copyVars

(***************************************************************************)
(* Clipboard texts and the copy feedback.                                  *)
(***************************************************************************)
RECURSIVE Join(_, _)
\* Array.prototype.join
Join(words, sep) ==
    IF words = <<>> THEN ""
    ELSE IF Len(words) = 1 THEN Head(words)
    ELSE Head(words) \o sep \o Join(Tail(words), sep)

\* setCopiedCategory(category) and the setTimeout that follows it
Acknowledge(category) ==
    /\ Len(timers) < MaxTimers
    /\ copiedCategory' = category
    /\ timers' = Append(timers, ExpiryDelay)
    /\ superseded' = (lastCopy \notin {NoCategory, category} /\ sinceCopy < ExpiryDelay)
    /\ lastCopy' = category
    /\ sinceCopy' = 0

\* faulty variant: the words joined by a blank only
copyTextBlankSeparated(words) == Join(words, " ")

\* Array.isArray(words) ? words.join(', ') : words, for the arrays the copy
\* buttons pass
copyText(words) == Join(words, ", ")

\* the words of a tense or parts-of-speech category, <<>> when absent
WordsOf(r, category) ==
    LET group == IF category \in TenseCategories
                 THEN r.tense_analysis ELSE r.parts_of_speech
    IN  IF category \in DOMAIN group THEN group[category] ELSE <<>>

\* the copy button of a tense or parts-of-speech category
handleCopyCategory(category) ==
    /\ result # Null
    /\ Len(WordsOf(result, category)) > 0
    /\ clipboard' = copyText(WordsOf(result, category))
    /\ Acknowledge(category)
    /\ UNCHANGED reqVars

\* faulty variant: the characters before the average word length
StatsTextCharactersEarly(r) ==
    "Words: " \o ToString(r.text_stats.word_count) \o "\n"
    \o "Sentences: " \o ToString(r.text_stats.sentence_count) \o "\n"
    \o "Avg Words/Sentence: " \o ToString(r.text_stats.avg_sentence_length) \o "\n"
    \o "Characters: " \o ToString(r.text_stats.character_count) \o "\n"
    \o "Avg Word Length: " \o ToString(r.text_stats.avg_word_length)

StatsText(r) ==
    "Words: " \o ToString(r.text_stats.word_count) \o "\n"
    \o "Sentences: " \o ToString(r.text_stats.sentence_count) \o "\n"
    \o "Avg Words/Sentence: " \o ToString(r.text_stats.avg_sentence_length) \o "\n"
    \o "Avg Word Length: " \o ToString(r.text_stats.avg_word_length) \o "\n"
    \o "Characters: " \o ToString(r.text_stats.character_count)

handleCopyStats ==
    /\ result # Null
    /\ clipboard' = StatsText(result)
    /\ Acknowledge("stats")
    /\ UNCHANGED reqVars

ReadabilityText(r) ==
    "Flesch-Kincaid Grade: " \o ToString(r.readability.flesch_kincaid_grade) \o "\n"
    \o "Reading Level: " \o r.readability.reading_level \o "\n"
    \o "Description: " \o r.readability.description

handleCopyReadability ==
    /\ result # Null
    /\ clipboard' = ReadabilityText(result)
    /\ Acknowledge("readability")
    /\ UNCHANGED reqVars

\* faulty variant: the sentences joined like the words of a category
PassiveTextCommaSeparated(r) ==
    IF Len(r.passive_sentences) > 0
    THEN Join(r.passive_sentences, ", ")
    ELSE "No passive voice sentences detected."

PassiveText(r) ==
    IF Len(r.passive_sentences) > 0
    THEN Join(r.passive_sentences, "\n")
    ELSE "No passive voice sentences detected."

\* faulty variant: the button is rendered with no result as well
handleCopyPassiveUnguarded ==
    /\ clipboard' = (IF result = Null THEN "" ELSE PassiveText(result))
    /\ Acknowledge("passive")
    /\ UNCHANGED reqVars

handleCopyPassive ==
    /\ result # Null
    /\ clipboard' = PassiveText(result)
    /\ Acknowledge("passive")
    /\ UNCHANGED reqVars

FreqLine(item) == item.word \o ": " \o ToString(item.count)

\* faulty variant: the entries in reverse order
WordFreqTextReversed(r) ==
    LET n == Len(r.word_frequency)
    IN  Join([i \in 1..n |-> FreqLine(r.word_frequency[n + 1 - i])], "\n")

WordFreqText(r) ==
    Join([i \in 1..Len(r.word_frequency) |-> FreqLine(r.word_frequency[i])], "\n")

handleCopyWordFreq ==
    /\ result # Null
    /\ clipboard' = WordFreqText(result)
    /\ Acknowledge("wordfreq")
    /\ UNCHANGED reqVars

Min(a, b) == IF a <= b THEN a ELSE b

\* faulty variant: the callback resets the result with the copied category
TimerFireClearsResult ==
    /\ timers # <<>>
    /\ timers[1] = 0
    /\ copiedCategory' = NoCategory
    /\ result' = Null
    /\ timers' = Tail(timers)
    /\ UNCHANGED << clipboard, lastCopy, sinceCopy, superseded >>
    /\ UNCHANGED << text, loading, error, inflight, calls, sinceClear >>

\* the callback of a copy action's setTimeout, run when its delay has elapsed
TimerFire ==
    /\ timers # <<>>
    /\ timers[1] = 0
    /\ copiedCategory' = NoCategory
    /\ timers' = Tail(timers)
    /\ UNCHANGED << clipboard, lastCopy, sinceCopy, superseded >>
    /\ UNCHANGED reqVars

\* time passes, up to the moment the next callback is due
Tick ==
    /\ timers # <<>>
    /\ timers[1] > 0
    /\ LET d == Min(TickStep, timers[1])
       IN  /\ timers' = [i \in 1..Len(timers) |-> timers[i] - d]
           /\ sinceCopy' = Min(sinceCopy + d, ExpiryDelay)
    /\ UNCHANGED << copiedCategory, clipboard, lastCopy, superseded >>
    /\ UNCHANGED reqVars

(***************************************************************************)
(* The exported document.  jsPDF lays text out in millimetres on A4 pages; *)
(* the model gives every character the same width, CharMicrons per point   *)
(* of font size, so that a line holds a whole number of characters.        *)
(***************************************************************************)
\* doc.internal.pageSize.getWidth() of jsPDF's default page (A4, mm)
PageWidth == 210
\* the width of a character, in thousandths of a millimetre per point of font size
CharMicrons == 176
\* let yPos = 20, and yPos = 20 after doc.addPage()
TopMargin == 20
lineHeight == 7
margin == 20
\* if (yPos > 270) in addText, if (yPos > 250) in addSection
PageLimit == 270
SectionLimit == 250
\* the space added before and after a section title
TitleBefore == 5
TitleAfter == 2
\* the space added after the report title and after the date line
HeaderSkip == 15
\* font sizes: report title, date line, section title, body, input text
TitleSize == 20
DateSize == 10
SectionSize == 14
BodySize == 12
InputSize == 11

maxWidth == PageWidth - margin * 2

\* the characters a line of the given font size holds
LineChars(fontSize) == (maxWidth * 1000) \div (fontSize * CharMicrons)

\* the string of a text kept as a sequence of characters
RECURSIVE Str(_)
Str(t) == IF t = <<>> THEN "" ELSE Head(t) \o Str(Tail(t))

StartsWith(s, prefix) ==
    Len(s) >= Len(prefix) /\ SubSeq(s, 1, Len(prefix)) = prefix

\* the positions where the separator occurs; the separators split by here
\* (", ", ": ", " " and the newline) cannot overlap themselves
SepStarts(s, sep) ==
    { i \in 1..Len(s) :
        i + Len(sep) - 1 <= Len(s) /\ SubSeq(s, i, i + Len(sep) - 1) = sep }

\* String.prototype.split with a non-empty separator
Split(s, sep) ==
    LET starts == SepStarts(s, sep)
        n == Cardinality(starts)
        Nth(k) == CHOOSE i \in starts : Cardinality({ j \in starts : j < i }) = k - 1
        from(k) == IF k = 1 THEN 1 ELSE Nth(k - 1) + Len(sep)
        to(k) == IF k = n + 1 THEN Len(s) ELSE Nth(k) - 1
    IN  [ k \in 1..(n + 1) |-> SubSeq(s, from(k), to(k)) ]

\* a word longer than a line is cut into pieces of the line's length
RECURSIVE Chop(_, _)
Chop(word, cap) ==
    IF Len(word) <= cap THEN << word >>
    ELSE << SubSeq(word, 1, cap) >> \o Chop(SubSeq(word, cap + 1, Len(word)), cap)

\* the words of one paragraph filled greedily into lines of at most cap characters
RECURSIVE Fill(_, _, _)
Fill(words, line, cap) ==
    IF words = <<>> THEN << line >>
    ELSE LET w == Head(words)
         IN  IF Len(line) + 1 + Len(w) <= cap
             THEN Fill(Tail(words), line \o " " \o w, cap)
             ELSE << line >> \o Fill(Tail(words), w, cap)

RECURSIVE Flatten(_)
Flatten(seqs) == IF seqs = <<>> THEN <<>> ELSE Head(seqs) \o Flatten(Tail(seqs))

WrapParagraph(p, cap) ==
    LET words == Split(p, " ")
        pieces == Flatten([i \in 1..Len(words) |-> Chop(words[i], cap)])
    IN  Fill(Tail(pieces), Head(pieces), cap)

\* faulty variant: the paragraphs as they are, however long
splitTextToSizeUnwrapped(s, fontSize) == Split(s, "\n")

\* doc.splitTextToSize(text, maxWidth) at the current font size
splitTextToSize(s, fontSize) ==
    LET paragraphs == Split(s, "\n")
    IN  Flatten([i \in 1..Len(paragraphs) |->
                    WrapParagraph(paragraphs[i], LineChars(fontSize))])

\* the layout in progress: the pages so far, each a sequence of placed lines,
\* and the cursor yPos on the last page
NewLayout == [ pages |-> << << >> >>, yPos |-> TopMargin ]

\* faulty variant: the new page takes the place of the last one
addPageOverLast(st) ==
    [ pages |-> SubSeq(st.pages, 1, Len(st.pages) - 1) \o << << >> >>,
      yPos |-> TopMargin ]

\* faulty variant: the cursor is not reset on the new page
addPageKeepsCursor(st) == [ pages |-> Append(st.pages, << >>), yPos |-> st.yPos ]

\* doc.addPage(); yPos = 20
addPage(st) == [ pages |-> Append(st.pages, << >>), yPos |-> TopMargin ]

\* doc.text(line, margin, yPos) with the font set before it
Place(st, line, fontSize, isBold) ==
    LET n == Len(st.pages)
        placed == [ str |-> line, x |-> margin, y |-> st.yPos,
                    size |-> fontSize, bold |-> isBold ]
    IN  [ st EXCEPT !.pages[n] = Append(@, placed) ]

Skip(st, dy) == [ st EXCEPT !.yPos = @ + dy ]

\* the body of addText's forEach, for the lines from the first one on
RECURSIVE addLines(_, _, _, _)
addLines(st, lines, fontSize, isBold) ==
    IF lines = <<>> THEN st
    ELSE LET at == IF st.yPos > PageLimit THEN addPage(st) ELSE st
         IN  addLines(Skip(Place(at, Head(lines), fontSize, isBold), lineHeight),
                      Tail(lines), fontSize, isBold)

addText(st, s, fontSize, isBold) ==
    addLines(st, splitTextToSize(s, fontSize), fontSize, isBold)

\* faulty variant: a section never starts a new page
addSectionWithoutBreak(st, title) ==
    Skip(addText(Skip(st, TitleBefore), title, SectionSize, TRUE), TitleAfter)

addSection(st, title) ==
    LET at == IF st.yPos > SectionLimit THEN addPage(st) ELSE st
    IN  Skip(addText(Skip(at, TitleBefore), title, SectionSize, TRUE), TitleAfter)

\* ${list.length > 0 ? list.join(', ') : 'None'}
TenseLine(label, list) ==
    label \o ": " \o (IF Len(list) > 0 THEN Join(list, ", ") ELSE "None")

StatsLines(r) ==
    << "Words: " \o ToString(r.text_stats.word_count),
       "Sentences: " \o ToString(r.text_stats.sentence_count),
       "Average Words per Sentence: " \o ToString(r.text_stats.avg_sentence_length),
       "Average Word Length: " \o ToString(r.text_stats.avg_word_length),
       "Characters: " \o ToString(r.text_stats.character_count) >>

ReadabilityLines(r) ==
    << "Flesch-Kincaid Grade Level: " \o ToString(r.readability.flesch_kincaid_grade),
       "Reading Level: " \o r.readability.reading_level,
       "Description: " \o r.readability.description >>

TenseLines(r) ==
    << TenseLine("Past Tense", r.tense_analysis.past),
       TenseLine("Present Tense", r.tense_analysis.present),
       TenseLine("Future Tense", r.tense_analysis.future) >>

\* faulty variant: the entries without the line that counts them
PassiveLinesWithoutCount(r) ==
    LET n == Len(r.passive_sentences)
    IN  IF n > 0
        THEN [i \in 1..n |-> ToString(i) \o ". " \o r.passive_sentences[i]]
        ELSE << "No passive voice sentences detected." >>

PassiveLines(r) ==
    LET n == Len(r.passive_sentences)
    IN  IF n > 0
        THEN << "Found " \o ToString(n) \o " sentence(s) with passive voice:" >>
             \o [i \in 1..n |-> ToString(i) \o ". " \o r.passive_sentences[i]]
        ELSE << "No passive voice sentences detected." >>

\* faulty variant: the entries without their rank
WordFreqLinesUnnumbered(r) ==
    [i \in 1..Len(r.word_frequency) |->
        r.word_frequency[i].word \o ": " \o ToString(r.word_frequency[i].count)]

WordFreqLines(r) ==
    [i \in 1..Len(r.word_frequency) |->
        ToString(i) \o ". " \o r.word_frequency[i].word \o ": "
        \o ToString(r.word_frequency[i].count)]

\* faulty variant: the verbs are exported before the nouns
PosOrderVerbsFirst ==
    << "verbs", "nouns", "adjectives", "adverbs", "pronouns", "prepositions",
       "conjunctions" >>

\* the parts-of-speech categories in the order of the export, with their labels
PosOrder ==
    << "nouns", "verbs", "adjectives", "adverbs", "pronouns", "prepositions",
       "conjunctions" >>
PosLabel ==
    [ nouns |-> "Nouns", verbs |-> "Verbs", adjectives |-> "Adjectives",
      adverbs |-> "Adverbs", pronouns |-> "Pronouns",
      prepositions |-> "Prepositions", conjunctions |-> "Conjunctions" ]

\* faulty variant: a line for every category, with or without words
PosLinesFromIncludingEmpty(r, categories) ==
    [ i \in 1..Len(categories) |->
        PosLabel[categories[i]] \o " ("
        \o ToString(Len(WordsOf(r, categories[i]))) \o "): "
        \o Join(WordsOf(r, categories[i]), ", ") ]

\* if (result.parts_of_speech.<category>?.length > 0) addText(...), in order
RECURSIVE PosLinesFrom(_, _)
PosLinesFrom(r, categories) ==
    IF categories = <<>> THEN <<>>
    ELSE LET c == Head(categories)
             words == WordsOf(r, c)
         IN  (IF Len(words) > 0
              THEN << PosLabel[c] \o " (" \o ToString(Len(words)) \o "): "
                      \o Join(words, ", ") >>
              ELSE <<>>)
             \o PosLinesFrom(r, Tail(categories))

PosLines(r) == PosLinesFrom(r, PosOrder)

\* the timestamps new Date().toLocaleString() can give
Timestamps == { "11/2/2026, 1:04:06 PM" }

\* the statements of handleDownloadPDF that draw, in program order
DocText(s, fontSize, isBold) ==
    [ stmt |-> "doc.text", str |-> s, size |-> fontSize, bold |-> isBold ]
Advance(dy) == [ stmt |-> "yPos +=", dy |-> dy ]
Section(title) == [ stmt |-> "addSection", str |-> title ]
Text(s, fontSize) ==
    [ stmt |-> "addText", str |-> s, size |-> fontSize, bold |-> FALSE ]
Body(strs) == [ i \in 1..Len(strs) |-> Text(strs[i], BodySize) ]

Statements(t, r, now) ==
    << DocText("Text Analysis Report", TitleSize, TRUE), Advance(HeaderSkip),
       DocText("Generated: " \o now, DateSize, FALSE), Advance(HeaderSkip),
       Section("INPUT TEXT"), Text(Str(t), InputSize) >>
    \o << Section("TEXT STATISTICS") >> \o Body(StatsLines(r))
    \o << Section("READABILITY SCORE") >> \o Body(ReadabilityLines(r))
    \o << Section("TENSE ANALYSIS") >> \o Body(TenseLines(r))
    \o << Section("PASSIVE VOICE DETECTION") >> \o Body(PassiveLines(r))
    \o << Section("WORD FREQUENCY (TOP 10)") >> \o Body(WordFreqLines(r))
    \o << Section("PARTS OF SPEECH") >> \o Body(PosLines(r))

Exec(st, c) ==
    CASE c.stmt = "doc.text" -> Place(st, c.str, c.size, c.bold)
      [] c.stmt = "yPos +=" -> Skip(st, c.dy)
      [] c.stmt = "addSection" -> addSection(st, c.str)
      [] c.stmt = "addText" -> addText(st, c.str, c.size, c.bold)

\* the layout after the statements stmts[lo..hi], run in order from st; the
\* first half is evaluated to a layout before the second half starts from it
RECURSIVE Run(_, _, _, _)
Run(st, stmts, lo, hi) ==
    IF lo > hi THEN st
    ELSE IF lo = hi THEN Exec(st, stmts[lo])
    ELSE LET mid == (lo + hi) \div 2
         IN  CHOOSE out \in { Run(half, stmts, mid + 1, hi) :
                                half \in { Run(st, stmts, lo, mid) } } : TRUE

\* the pages handleDownloadPDF builds from the text and the result
Report(t, r, now) ==
    LET stmts == Statements(t, r, now)
    IN  Run(NewLayout, stmts, 1, Len(stmts)).pages

\* the Download PDF Report button, rendered only when a result is stored
handleDownloadPDF(now) ==
    /\ result # Null
    /\ doc' = Report(text, result, now)
    /\ UNCHANGED << reqVars, copyVars, mounted, resultText >>

\* The mounted component: its request lifecycle and its copy feedback.
Next ==
    \/ ClickAnalyze /\ UNCHANGED xVars
    \/ \E i \in 1..Len(inflight), o \in Outcomes :
            FetchSettled(i, o) /\ UNCHANGED xVars
    \/ \E v \in Texts : onChange(v) /\ UNCHANGED xVars
    \/ handleClear /\ UNCHANGED xVars
    \/ \E c \in TenseCategories \cup PosCategories :
            handleCopyCategory(c) /\ UNCHANGED xVars
    \/ handleCopyStats /\ UNCHANGED xVars
    \/ handleCopyReadability /\ UNCHANGED xVars
    \/ handleCopyPassive /\ UNCHANGED xVars
    \/ handleCopyWordFreq /\ UNCHANGED xVars
    \/ TimerFire /\ UNCHANGED xVars
    \/ Tick /\ UNCHANGED xVars

Spec == Init /\ [][Next]_vars

(***************************************************************************)
(* Teardown.  React unmounts the component; App registers no cleanup (it   *)
(* uses no effect), so the calls in flight and the pending timers outlive  *)
(* it and their continuations and callbacks still call the state setters.  *)
(***************************************************************************)
Unmount ==
    /\ mounted
    /\ mounted' = FALSE
    /\ UNCHANGED << reqVars, copyVars, doc, resultText >>

\* a user event: only a mounted component receives one
UserEvent ==
    \/ ClickAnalyze
    \/ \E v \in Texts : onChange(v)
    \/ handleClear
    \/ \E c \in TenseCategories \cup PosCategories : handleCopyCategory(c)
    \/ handleCopyStats
    \/ handleCopyReadability
    \/ handleCopyPassive
    \/ handleCopyWordFreq

NextTeardown ==
    \/ mounted /\ UserEvent /\ UNCHANGED xVars
    \/ \E i \in 1..Len(inflight), o \in Outcomes :
            FetchSettled(i, o) /\ UNCHANGED xVars
    \/ TimerFire /\ UNCHANGED xVars
    \/ Tick /\ UNCHANGED xVars
    \/ Unmount

SpecTeardown == Init /\ [][NextTeardown]_vars

(***************************************************************************)
(* The request lifecycle with the document export, and the history of      *)
(* which submitted text the stored result answers.                         *)
(***************************************************************************)
NextExport ==
    \/ ClickAnalyze /\ UNCHANGED xVars
    \/ \E i \in 1..Len(inflight), o \in Outcomes :
            /\ FetchSettled(i, o)
            /\ resultText' = IF o.kind = "ok" THEN inflight[i].text ELSE resultText
            /\ UNCHANGED << mounted, doc >>
    \/ \E v \in Texts : onChange(v) /\ UNCHANGED xVars
    \/ handleClear /\ UNCHANGED xVars
    \/ \E now \in Timestamps : handleDownloadPDF(now)

SpecExport == Init /\ [][NextExport]_vars

(***************************************************************************)
(* The formatters of a stored result, over generated results: the export   *)
(* and the copy handlers applied to a component that shows a result.       *)
(***************************************************************************)
PassiveLists ==
    { << >>,
      << "The cat was chased by the dog." >>,
      << "The cat was chased by the dog.", "Mistakes were made." >>,
      << "Mistakes were made.", "The cat was chased by the dog." >> }

FreqLists ==
    { << >>,
      << [word |-> "the", count |-> 3], [word |-> "cat", count |-> 1] >>,
      << [word |-> "cat", count |-> 1], [word |-> "the", count |-> 3] >>,
      << [word |-> "a", count |-> 2], [word |-> "dog", count |-> 2],
         [word |-> "b", count |-> 1] >> }

TenseMaps ==
    { ResultPassive.tense_analysis, ResultActive.tense_analysis,
      [ past |-> <<>>, present |-> <<>>, future |-> <<>> ] }

\* every choice of the categories that have words, and the response that
\* leaves categories out
PosMaps ==
    { [ c \in PosCategories |->
            IF c \in present THEN ResultActive.parts_of_speech[c] ELSE <<>> ] :
        present \in SUBSET PosCategories }
    \cup { ResultPassive.parts_of_speech }

GeneratedResults ==
    { [ ResultActive EXCEPT !.parts_of_speech = p ] : p \in PosMaps }
    \cup { [ ResultPassive EXCEPT !.passive_sentences = s, !.word_frequency = f,
                                  !.tense_analysis = t ] :
             s \in PassiveLists, f \in FreqLists, t \in TenseMaps }

\* the component after one accepted submit whose response, one of results,
\* was stored
Stored(results) ==
    /\ text = Core(MinChars)
    /\ result \in results
    /\ loading = FALSE
    /\ error = ""
    /\ copiedCategory = NoCategory
    /\ inflight = <<>>
    /\ timers = <<>>
    /\ clipboard = ""
    /\ calls = 1
    /\ sinceClear = FALSE
    /\ lastCopy = NoCategory
    /\ sinceCopy = ExpiryDelay
    /\ superseded = FALSE
    /\ mounted = TRUE
    /\ doc = NoDocument
    /\ resultText = text

InitStored == Stored(GeneratedResults)

NextDocument == \E now \in Timestamps : handleDownloadPDF(now)

SpecDocument == InitStored /\ [][NextDocument]_vars

NextCopyText ==
    \/ \E c \in TenseCategories \cup PosCategories :
            handleCopyCategory(c) /\ UNCHANGED xVars
    \/ handleCopyStats /\ UNCHANGED xVars
    \/ handleCopyReadability /\ UNCHANGED xVars
    \/ handleCopyPassive /\ UNCHANGED xVars
    \/ handleCopyWordFreq /\ UNCHANGED xVars

SpecCopyText == InitStored /\ [][NextCopyText]_vars

(***************************************************************************)
(* The pagination of the export, over results whose number of passive      *)
(* sentences moves the later sections over every cursor position of the    *)
(* first three pages, and over sentences that do not fit one line.         *)
(***************************************************************************)
Sentence(i) == "Sentence " \o ToString(i) \o " was written by hand."

LongSentence ==
    "The report that was requested by the committee in the spring was written "
    \o "by the two newest members of the team."

LongWord ==
    "Pneumonoultramicroscopicsilicovolcanoconiosispneumonoultramicroscopic"
    \o "silicovolcanoconiosis"

SentenceLists ==
    { [ i \in 1..n |-> Sentence(i) ] : n \in 0..MaxPassive }
    \cup { << LongSentence >>, << LongSentence, Sentence(2), LongSentence >>,
           << LongWord \o " was said." >> }

PaginationResults ==
    { [ ResultActive EXCEPT !.passive_sentences = s, !.word_frequency = f,
                            !.parts_of_speech = p ] :
        s \in SentenceLists,
        f \in { << >>, ResultPassive.word_frequency },
        p \in { ResultActive.parts_of_speech,
                [ c \in PosCategories |-> << >> ] } }

InitPagination == Stored(PaginationResults)

SpecPagination == InitPagination /\ [][NextDocument]_vars

(***************************************************************************)
(* The parts of speech of a stored result, exported and copied.            *)
(***************************************************************************)
InitCategories ==
    Stored({ [ ResultActive EXCEPT !.parts_of_speech = p ] : p \in PosMaps })

NextCategories ==
    \/ \E now \in Timestamps : handleDownloadPDF(now)
    \/ \E c \in PosCategories : handleCopyCategory(c) /\ UNCHANGED xVars

SpecCategories == InitCategories /\ [][NextCategories]_vars

(***************************************************************************)
(* The request lifecycle with a collaborator that answers or fails every   *)
(* call in the end.                                                        *)
(***************************************************************************)
Settle ==
    \E i \in 1..Len(inflight), o \in Outcomes :
        FetchSettled(i, o) /\ UNCHANGED xVars

NextResolve ==
    \/ ClickAnalyze /\ UNCHANGED xVars
    \/ Settle
    \/ \E v \in Texts : onChange(v) /\ UNCHANGED xVars
    \/ handleClear /\ UNCHANGED xVars

SpecResolve == Init /\ [][NextResolve]_vars /\ WF_vars(Settle)

(***************************************************************************)
(* A component that shows a result: the copy actions with their feedback   *)
(* timers, and the export.                                                 *)
(***************************************************************************)
InitShown == Stored(Payloads)

CopyAction ==
    \/ \E c \in TenseCategories \cup PosCategories : handleCopyCategory(c)
    \/ handleCopyStats
    \/ handleCopyReadability
    \/ handleCopyPassive
    \/ handleCopyWordFreq

NextShown ==
    \/ CopyAction /\ UNCHANGED xVars
    \/ TimerFire /\ UNCHANGED xVars
    \/ Tick /\ UNCHANGED xVars
    \/ \E now \in Timestamps : handleDownloadPDF(now)

SpecShown == InitShown /\ [][NextShown]_vars

(***************************************************************************)
(* The request lifecycle with the actions that need a result.              *)
(***************************************************************************)
\* the empty text and a text that can be submitted
PlainTexts == { << >>, Core(MinChars) }

NextGuarded ==
    \/ ClickAnalyze /\ UNCHANGED xVars
    \/ Settle
    \/ \E v \in PlainTexts : onChange(v) /\ UNCHANGED xVars
    \/ handleClear /\ UNCHANGED xVars
    \/ CopyAction /\ UNCHANGED xVars
    \/ \E now \in Timestamps : handleDownloadPDF(now)

SpecGuarded == Init /\ [][NextGuarded]_vars

(***************************************************************************)
(* The request lifecycle: claims.                                          *)
(***************************************************************************)
\* a click on Analyze that handleAnalyze accepts, respectively rejects
AcceptedSubmit == ClickAnalyze /\ ~AnalyzeDisabled /\ ~Rejected(text)
RejectedSubmit == ClickAnalyze /\ ~AnalyzeDisabled /\ Rejected(text)

\* C1: every analyze call in flight carries a text whose trimmed length is at
\* least 10, so no text with trim(text).length < 10 is ever dispatched.
C1_DispatchedTextIsLongWhenTrimmed ==
    \A i \in 1..Len(inflight) : Len(Trim(inflight[i].text)) >= MinChars

\* C2: at most one analyze call is in flight after every step, and a click on
\* Analyze while loading issues no call and changes no state.
C2_AtMostOneInFlight ==
    [][ /\ Len(inflight') <= 1
        /\ (loading /\ ClickAnalyze) => UNCHANGED vars ]_vars

C2_SubmitWhileLoading ==
    /\ loading
    /\ Len(inflight) = 1
    /\ ~Rejected(text)
    /\ text # inflight[1].text

\* C3: handleClear, run in any state, leaves the request state Idle: not
\* loading, no stored result, empty error and empty text.
C3_ClearLeavesIdle ==
    [][ handleClear =>
            (~loading' /\ result' = Null /\ error' = "" /\ text' = <<>>) ]_vars

\* C4: at most one of (loading, a stored result, a non-empty error) holds, so
\* an error is never shown alongside a stored result.
C4_OneVariantActive ==
    /\ ~(loading /\ result # Null)
    /\ ~(loading /\ error # "")
    /\ ~(result # Null /\ error # "")

\* C5: from handleClear until handleAnalyze next runs, no result is stored and
\* the error is empty: the response to an earlier call installs nothing.
C5_NothingInstalledAfterClear ==
    sinceClear => (result = Null /\ error = "")

\* C6: a submit that validation rejects issues no call and changes nothing of
\* the component's state but the error, which becomes the validation message.
C6_RejectedSubmitSetsOnlyError ==
    [][ RejectedSubmit =>
            /\ error' = ValidationMessage
            /\ calls' = calls
            /\ UNCHANGED << text, result, loading, copiedCategory, inflight,
                            timers, clipboard >> ]_vars

C6_RejectedWithStoredResult ==
    /\ error = ValidationMessage
    /\ result # Null
    /\ ~loading
    /\ calls > 0

\* C7: an accepted submit sets loading, empties the error, discards the result
\* and issues one call carrying the text of that moment; no other step (a
\* response, an error, a clear, a rejected submit) issues a call.
C7_OneCallPerAcceptedSubmit ==
    [][ /\ AcceptedSubmit =>
            /\ loading' /\ error' = "" /\ result' = Null
            /\ inflight' = Append(inflight, [text |-> text])
            /\ calls' = calls + 1
        /\ ~AcceptedSubmit => (calls' = calls /\ Len(inflight') <= Len(inflight))
      ]_vars

C7_SecondCallInFlight ==
    /\ calls = 2
    /\ loading
    /\ inflight = << [text |-> text] >>
    /\ error = ""
    /\ result = Null

\* C8: when the call in flight returns a success response, the stored result
\* is exactly the payload, loading is false and the error is empty.
C8_SuccessStoresPayload ==
    [][ \A i \in 1..Len(inflight), o \in Outcomes :
            (o.kind = "ok" /\ FetchSettled(i, o)) =>
                (result' = o.data /\ ~loading' /\ error' = "") ]_vars

C8_SecondCallSucceeded ==
    /\ result \in Payloads
    /\ ~loading
    /\ error = ""
    /\ inflight = <<>>
    /\ calls = 2

\* C9: when the call in flight fails, loading is false, no result is stored and
\* the error is the detail string of the response when it has one, else
\* 'Analysis failed'; for a failure that is no response, its message when it
\* has one, else 'Failed to connect to server'.
C9_FailureShowsMessage ==
    [][ \A i \in 1..Len(inflight), o \in Outcomes :
            (o.kind # "ok" /\ FetchSettled(i, o)) =>
                /\ ~loading'
                /\ result' = Null
                /\ (o.kind = "notok" /\ "detail" \in DOMAIN o /\ o.detail # "")
                       => error' = o.detail
                /\ (o.kind = "notok" /\ ("detail" \notin DOMAIN o \/ o.detail = ""))
                       => error' = "Analysis failed"
                /\ (o.kind = "reject" /\ o.message # "") => error' = o.message
                /\ (o.kind = "reject" /\ o.message = "")
                       => error' = "Failed to connect to server" ]_vars

C9_DetailShown ==
    /\ error \in Details
    /\ ~loading
    /\ result = Null
    /\ inflight = <<>>

(***************************************************************************)
(* The copy feedback: claims.                                              *)
(***************************************************************************)
\* C10: when a copy action follows, less than 2000 time units later, a copy
\* action for another category, its category stays the copied category until
\* 2000 time units after it.
C10_LaterCopyOutlivesEarlierTimer ==
    (superseded /\ sinceCopy < ExpiryDelay) => copiedCategory = lastCopy

\* C11: a copy action makes its category the copied category at once; if no
\* other copy action follows, the category stays copied for 2000 time units
\* and the copied category is null from then on.
C11_CopyStaysActiveForExpiryDelay ==
    /\ (lastCopy # NoCategory /\ sinceCopy = 0 /\ timers # <<>>
            /\ timers[Len(timers)] = ExpiryDelay) => copiedCategory = lastCopy
    /\ (lastCopy # NoCategory /\ sinceCopy < ExpiryDelay) => copiedCategory = lastCopy
    /\ (sinceCopy >= ExpiryDelay /\ timers = <<>>) => copiedCategory = NoCategory

\* C12: once the component is unmounted no copy-feedback expiry callback runs:
\* the pending timers were cancelled at teardown.
C12_NoExpiryCallbackAfterTeardown ==
    [][ ~mounted => ~TimerFire ]_vars

(***************************************************************************)
(* The exported document: claims.                                          *)
(***************************************************************************)
\* the placed lines of a document in reading order
DocLines(d) == Flatten(d)

IsSectionTitle(l) == l.bold /\ l.size = SectionSize

RECURSIVE UpToTitle(_)
UpToTitle(lines) ==
    IF lines = <<>> \/ IsSectionTitle(Head(lines)) THEN <<>>
    ELSE << Head(lines).str >> \o UpToTitle(Tail(lines))

RECURSIVE BodyAfter(_, _)
BodyAfter(lines, title) ==
    IF lines = <<>> THEN <<>>
    ELSE IF IsSectionTitle(Head(lines)) /\ Head(lines).str = title
         THEN UpToTitle(Tail(lines))
         ELSE BodyAfter(Tail(lines), title)

\* the strings of the body lines of the section with the given title
SectionBody(d, title) == BodyAfter(DocLines(d), title)

\* the titles of the sections of a document, in reading order
SectionTitles(d) ==
    LET lines == DocLines(d)
    IN  [i \in 1..Len(SelectSeq(lines, IsSectionTitle)) |->
            SelectSeq(lines, IsSectionTitle)[i].str]

\* C13: the Input Text section of an exported document holds the text that
\* was submitted to produce the result stored at the export.
C13_InputTextIsSubmittedText ==
    [][ \A now \in Timestamps :
            handleDownloadPDF(now) =>
                Join(SectionBody(doc', "INPUT TEXT"), " ") = Str(resultText) ]_vars

\* the label a parts-of-speech line of the document starts with
LineLabel(line) == Split(line, " (")[1]

HasWords(category) == Len(WordsOf(result, category)) > 0

\* C14: an exported document has the sections Input Text, Text Statistics,
\* Readability Score, Tense Analysis, Passive Voice Detection, Word Frequency
\* in this order, followed by the parts of speech: one entry for each
\* category that has words, and only for those, in the order nouns, verbs,
\* adjectives, adverbs, pronouns, prepositions, conjunctions.
C14_SectionsInOrder ==
    [][ \A now \in Timestamps :
            handleDownloadPDF(now) =>
                LET entries == SectionBody(doc', "PARTS OF SPEECH")
                    shown == SelectSeq(<< "nouns", "verbs", "adjectives", "adverbs",
                                          "pronouns", "prepositions", "conjunctions" >>,
                                       HasWords)
                IN  /\ SectionTitles(doc') =
                            << "INPUT TEXT", "TEXT STATISTICS", "READABILITY SCORE",
                               "TENSE ANALYSIS", "PASSIVE VOICE DETECTION",
                               "WORD FREQUENCY (TOP 10)", "PARTS OF SPEECH" >>
                    /\ Len(entries) = Len(shown)
                    /\ \A i \in 1..Len(shown) :
                            LineLabel(entries[i]) = PosLabel[shown[i]] ]_vars

\* an exported document of a result where the nouns and the adverbs have no
\* words and the verbs and the conjunctions have some
C14_SomeCategoriesLeftOut ==
    /\ doc # NoDocument
    /\ result # Null
    /\ ~HasWords("nouns") /\ HasWords("verbs")
    /\ ~HasWords("adverbs") /\ HasWords("conjunctions")
    /\ LineLabel(SectionBody(doc, "PARTS OF SPEECH")[1]) = "Verbs"

PassiveBody(d) == SectionBody(d, "PASSIVE VOICE DETECTION")

InBody(str, body) == \E i \in 1..Len(body) : body[i] = str

C16_EmptyTenseCopiesNone ==
    result # Null =>
        \A c \in TenseCategories :
            LET words == WordsOf(result, c)
            IN  IF words = <<>>
                THEN copyText(words) = "None"
                ELSE Split(copyText(words), ", ") = words

\* C16, amended: a tense category is copied only when it has words, and the
\* clipboard then holds the words joined by ", " (never the text "None").
C16_TenseCopiedOnlyWithWords ==
    [][ \A c \in TenseCategories :
            handleCopyCategory(c) =>
                /\ WordsOf(result, c) # <<>>
                /\ Split(clipboard', ", ") = WordsOf(result, c)
                /\ clipboard' # "None" ]_vars

\* the past tense was copied, two words, while the future tense has none
C16_PastCopiedFutureEmpty ==
    /\ result # Null
    /\ lastCopy = "past"
    /\ clipboard = "was, chased"
    /\ WordsOf(result, "future") = <<>>

\* C17: the clipboard text for word frequency is one "word: count" line per
\* entry of the result, in the order of the result, joined by newlines with
\* none at the end; the entries the 3, cat 1 give "the: 3\ncat: 1".
C17_WordFreqLinesInResultOrder ==
    [][ handleCopyWordFreq =>
            LET entries == result.word_frequency
                lines == Split(clipboard', "\n")
            IN  /\ IF entries = <<>> THEN clipboard' = ""
                   ELSE /\ Len(lines) = Len(entries)
                        /\ \A i \in 1..Len(entries) :
                               Split(lines[i], ": ")
                                   = << entries[i].word, ToString(entries[i].count) >>
                /\ (entries = << [word |-> "the", count |-> 3],
                                 [word |-> "cat", count |-> 1] >>)
                       => clipboard' = "the: 3\ncat: 1" ]_vars

\* the word frequency was copied from a result whose entries are not sorted
\* by count
C17_UnsortedEntriesCopied ==
    /\ lastCopy = "wordfreq"
    /\ result # Null
    /\ result.word_frequency
           = << [word |-> "cat", count |-> 1], [word |-> "the", count |-> 3] >>
    /\ clipboard = "cat: 1\nthe: 3"

StatsLabels ==
    << "Words", "Sentences", "Avg Words/Sentence", "Avg Word Length", "Characters" >>

StatsValues(r) ==
    << r.text_stats.word_count, r.text_stats.sentence_count,
       r.text_stats.avg_sentence_length, r.text_stats.avg_word_length,
       r.text_stats.character_count >>

\* C18: the clipboard text for statistics is five "label: value" lines, the
\* labels Words, Sentences, Avg Words/Sentence, Avg Word Length, Characters
\* in this order, each value the matching field of the stored result.
C18_StatsFiveLabelledLines ==
    [][ handleCopyStats =>
            LET lines == Split(clipboard', "\n")
            IN  /\ Len(lines) = 5
                /\ \A i \in 1..5 :
                       Split(lines[i], ": ")
                           = << StatsLabels[i], ToString(StatsValues(result)[i]) >> ]_vars

\* the statistics of a result with five different values were copied
C18_StatsCopied ==
    /\ lastCopy = "stats"
    /\ result # Null
    /\ Cardinality({ StatsValues(result)[i] : i \in 1..5 }) = 5
    /\ Len(Split(clipboard, "\n")) = 5

\* C19: the clipboard text for passive sentences is the sentences of the
\* result joined by newlines, in result order, when there are some, and the
\* text "No passive voice sentences detected." when there are none.
C19_PassiveSentencesOrSentinel ==
    [][ handleCopyPassive =>
            IF Len(result.passive_sentences) > 0
            THEN Split(clipboard', "\n") = result.passive_sentences
            ELSE clipboard' = "No passive voice sentences detected." ]_vars

\* two passive sentences were copied
C19_TwoSentencesCopied ==
    /\ lastCopy = "passive"
    /\ result # Null
    /\ Len(result.passive_sentences) = 2
    /\ clipboard = "Mistakes were made.\nThe cat was chased by the dog."

(***************************************************************************)
(* The pagination of the export: claims.                                   *)
(***************************************************************************)
\* the placed lines of a document in reading order, each with its page
PagedLines(d) ==
    Flatten([ p \in 1..Len(d) |->
                [ i \in 1..Len(d[p]) |-> [ page |-> p, line |-> d[p][i] ] ] ])

\* C21: in an exported document a section title that is followed by a body
\* line is on the same page as that body line.
C21_TitleWithFirstBodyLine ==
    [][ \A now \in Timestamps :
            handleDownloadPDF(now) =>
                LET lines == PagedLines(doc')
                IN  \A k \in 1..(Len(lines) - 1) :
                        (IsSectionTitle(lines[k].line)
                            /\ ~IsSectionTitle(lines[k + 1].line))
                        => lines[k].page = lines[k + 1].page ]_vars

\* an exported document with a section that starts at the last cursor
\* position under the section limit that the first page has (246: title at
\* 251, first body line at 260), and with a section that opens a later page
C21_SectionsAtThePageEnd ==
    /\ doc # NoDocument
    /\ \E i \in 1..(Len(doc[1]) - 1) :
            /\ IsSectionTitle(doc[1][i])
            /\ doc[1][i].y = 251
            /\ ~IsSectionTitle(doc[1][i + 1])
            /\ doc[1][i + 1].y = 260
    /\ \E p \in 2..Len(doc) :
            /\ Len(doc[p]) >= 2
            /\ IsSectionTitle(doc[p][1])
            /\ ~IsSectionTitle(doc[p][2])

\* C22: every line of an exported document is placed between the top margin
\* 20 and the page limit 270, and every page after the first starts at the
\* top margin: with a body line at 20, or with a section title 5 below it.
C22_LinesWithinThePage ==
    [][ \A now \in Timestamps :
            handleDownloadPDF(now) =>
                /\ \A p \in 1..Len(doc') : \A i \in 1..Len(doc'[p]) :
                        doc'[p][i].y >= 20 /\ doc'[p][i].y <= 270
                /\ \A p \in 2..Len(doc') :
                        /\ doc'[p] # << >>
                        /\ doc'[p][1].y = IF IsSectionTitle(doc'[p][1]) THEN 25 ELSE 20 ]_vars

\* an exported document whose first page is filled to its last cursor
\* position 267 and whose second page starts with a body line
C22_BodyLineOpensSecondPage ==
    /\ doc # NoDocument
    /\ Len(doc) >= 2
    /\ doc[1][Len(doc[1])].y = 267
    /\ ~IsSectionTitle(doc[2][1])
    /\ doc[2][1].y = 20

\* the strings a statement of the export produces, in the order it does
ProducedBy(c) ==
    CASE c.stmt = "doc.text" -> << c.str >>
      [] c.stmt = "yPos +=" -> << >>
      [] c.stmt = "addSection" -> splitTextToSize(c.str, SectionSize)
      [] c.stmt = "addText" -> splitTextToSize(c.str, c.size)

Produced(stmts) == Flatten([ i \in 1..Len(stmts) |-> ProducedBy(stmts[i]) ])

\* C23: the lines of an exported document, read page by page and top to
\* bottom, are the section titles and wrapped body lines in the order they
\* were produced, each once; on a page every line is below the one before it.
C23_LinesOnceInOrder ==
    [][ \A now \in Timestamps :
            handleDownloadPDF(now) =>
                LET lines == DocLines(doc')
                IN  /\ [ k \in 1..Len(lines) |-> lines[k].str ]
                            = Produced(Statements(text, result, now))
                    /\ \A p \in 1..Len(doc') : \A i \in 1..(Len(doc'[p]) - 1) :
                            doc'[p][i].y < doc'[p][i + 1].y ]_vars

\* an exported document of four pages
C23_FourPages ==
    /\ doc # NoDocument
    /\ Len(doc) = 4
    /\ \A p \in 1..4 : Len(doc[p]) >= 2

\* the parts-of-speech labels an exported document has a line for
LabelsShown(d) ==
    LET entries == SectionBody(d, "PARTS OF SPEECH")
    IN  { LineLabel(entries[i]) : i \in 1..Len(entries) }

\* C24: an exported document has a line for a parts-of-speech category
\* exactly when the category is present with words, and a category is copied
\* only when it is present with words.
C24_CategoryOutputIffWords ==
    [][ /\ \A now \in Timestamps :
              handleDownloadPDF(now) =>
                  \A c \in PosCategories :
                      PosLabel[c] \in LabelsShown(doc')
                          <=> (c \in DOMAIN result.parts_of_speech
                                  /\ result.parts_of_speech[c] # << >>)
        /\ \A c \in PosCategories :
              handleCopyCategory(c) =>
                  (c \in DOMAIN result.parts_of_speech
                      /\ result.parts_of_speech[c] # << >>) ]_vars

\* the verbs were copied and the document exported for a result that has
\* verbs, an empty list of adjectives and no adverbs entry
C24_VerbsCopiedAndExported ==
    /\ doc # NoDocument
    /\ lastCopy = "verbs"
    /\ result # Null
    /\ result.parts_of_speech.adjectives = << >>
    /\ "adverbs" \notin DOMAIN result.parts_of_speech
    /\ LabelsShown(doc) = { "Nouns", "Verbs", "Prepositions" }

(***************************************************************************)
(* The export against the clipboard texts: claims.                         *)
(***************************************************************************)
\* the lines of a clipboard text
ClipboardLines(s) == IF s = "" THEN << >> ELSE Split(s, "\n")

\* C25: the Text Statistics section of an exported document has the lines of
\* the statistics clipboard text of the same result, and the Word Frequency
\* section has the lines of the word-frequency clipboard text.
C25_ExportHasClipboardLines ==
    [][ \A now \in Timestamps :
            handleDownloadPDF(now) =>
                /\ SectionBody(doc', "TEXT STATISTICS")
                        = ClipboardLines(StatsText(result))
                /\ SectionBody(doc', "WORD FREQUENCY (TOP 10)")
                        = ClipboardLines(WordFreqText(result)) ]_vars

\* C25, amended: the Text Statistics section has five "label: value" lines
\* with the values of the statistics clipboard text in the same order, under
\* the labels Words, Sentences, Average Words per Sentence, Average Word
\* Length, Characters; the Word Frequency section has, for each entry in
\* result order, the line of the word-frequency clipboard text after its
\* rank "i. ".
C25_ExportHasClipboardValues ==
    [][ \A now \in Timestamps :
            handleDownloadPDF(now) =>
                LET stats == SectionBody(doc', "TEXT STATISTICS")
                    copiedStats == ClipboardLines(StatsText(result))
                    freq == SectionBody(doc', "WORD FREQUENCY (TOP 10)")
                    copiedFreq == ClipboardLines(WordFreqText(result))
                IN  /\ Len(stats) = 5
                    /\ [ i \in 1..5 |-> Split(stats[i], ": ")[1] ]
                           = << "Words", "Sentences", "Average Words per Sentence",
                                "Average Word Length", "Characters" >>
                    /\ \A i \in 1..5 :
                           Split(stats[i], ": ")[2] = Split(copiedStats[i], ": ")[2]
                    /\ Len(freq) = Len(copiedFreq)
                    /\ \A i \in 1..Len(freq) :
                           freq[i] = ToString(i) \o ". " \o copiedFreq[i] ]_vars

\* an exported document of a result with the entries the 3, cat 1
C25_TwoEntriesExported ==
    /\ doc # NoDocument
    /\ result # Null
    /\ WordFreqText(result) = "the: 3\ncat: 1"
    /\ SectionBody(doc, "WORD FREQUENCY (TOP 10)") = << "1. the: 3", "2. cat: 1" >>

C27_LoadingResolves ==
    /\ (inflight # << >>) ~> (inflight = << >>)
    /\ loading ~> (~loading /\ (result # Null \/ error # ""))

\* a call that was cleared while in flight has settled with a result
C27_SettledAfterClear ==
    /\ sinceClear
    /\ calls > 0
    /\ ~loading
    /\ inflight = << >>
    /\ result # Null

\* C28: a copy action, a copy-feedback expiry callback and the export leave
\* the input text, the loading flag, the stored result and the error message
\* as they were.
C28_RequestStateUntouched ==
    [][ (\/ CopyAction
         \/ TimerFire
         \/ \E now \in Timestamps : handleDownloadPDF(now))
            => (text' = text /\ loading' = loading /\ result' = result
                    /\ error' = error) ]_vars

\* a category was copied, its expiry callback ran and the document was
\* exported
C28_CopiedExpiredExported ==
    /\ result # Null
    /\ lastCopy # NoCategory
    /\ timers = << >>
    /\ copiedCategory = NoCategory
    /\ doc # NoDocument

\* C29: with no result stored, no action that needs a result happens: no
\* copy of the statistics, the readability, the passive sentences, the word
\* frequency or a category, and no export.
C29_NoResultNoResultAction ==
    [][ result = Null
            => ~(\/ CopyAction
                 \/ \E now \in Timestamps : handleDownloadPDF(now)) ]_vars

\* the result was cleared after a copy and an export, and a second call is
\* in flight
C29_ClearedAfterCopyAndExport ==
    /\ result = Null
    /\ lastCopy # NoCategory
    /\ doc # NoDocument
    /\ inflight # << >>
    /\ calls = 2
====
